---- MODULE Spec2Model ----
(***************************************************************************)
(* Model of tuning/trackers/aimstack_tracker.py: the lifecycle callback    *)
(* RunIDExporterAimCallback (run-hash export at on_init_end) and the       *)
(* adapter AimStackTracker (get_hf_callback, track, set_params).           *)
(*                                                                         *)
(* Python values are modelled as follows.  None is the string None below;  *)
(* paths, urls, metric values and names are strings; a run handle is an    *)
(* index into runs (0 = no run handle); a callback object is an index into *)
(* callbacks (0 = the adapter has no stored callback).                     *)
(***************************************************************************)
EXTENDS Integers, Sequences, FiniteSets, TLC

VARIABLES
    config,       \* the AimConfig given to AimStackTracker.__init__
    logger,       \* AimStackTracker.logger
    hf_callback,  \* AimStackTracker.hf_callback: index into callbacks, 0 = not stored
    callbacks,    \* the RunIDExporterAimCallback objects that were handed out
    runs,         \* the run handles of the tracking client, with the calls made on them
    dirs,         \* file system: the directories that exist
    files,        \* file system: path -> [exists, chunks]
    ret           \* the last call: its inputs, what it observed, its outcome and log lines

vars == <<config, logger, hf_callback, callbacks, runs, dirs, files, ret>>

----------------------------------------------------------------------------
(* Values *)

None == "<None>"

\* marks a keyword argument the caller left out
Omitted == "<omitted>"

AIM_HASH_EXPORT_DEFAULT_FILENAME == "aimstack_tracker.json"

\* Bounds of the model.
MaxCallbacks == 1
MaxRunCalls == 2

Urls == {None, "http://aim:53800"}
Repos == {None, "", "/aim/repo"}
Experiments == {"exp"}
Dirs == {"export", "out"}
ExportPathChoices == {None, "export"}

Configs ==
    [experiment : Experiments, aim_url : Urls, aim_repo : Repos,
     aim_run_id_export_path : ExportPathChoices]

\* the args object of a lifecycle event: absent, or carrying output_dir (possibly None)
NoArgs == [present |-> FALSE, output_dir |-> None]
ArgsChoices == {NoArgs} \cup {[present |-> TRUE, output_dir |-> d] : d \in Dirs \cup {None}}

\* the calls of track the harness makes: <<metric, name, stage>>
TrackChoices ==
    { <<None, "loss", Omitted>>, <<"0.5", None, Omitted>>,
      <<"0.5", "loss", Omitted>>, <<"0.5", "loss", "train">> }

\* params of set_params: None, a list, or a dict given as its items in iteration order
ParamsNone == [kind |-> "none", items |-> <<>>]
ParamsList == [kind |-> "list", items |-> <<>>]
ParamsEmpty == [kind |-> "dict", items |-> <<>>]
ParamsOne == [kind |-> "dict", items |-> << <<"lr", "0.01">> >>]
ParamsTwo == [kind |-> "dict", items |-> << <<"lr", "0.01">>, <<"bs", "8">> >>]

\* the calls of set_params the harness makes: <<params, name>>
SetParamsChoices ==
    { <<ParamsNone, Omitted>>, <<ParamsList, Omitted>>, <<ParamsEmpty, Omitted>>,
      <<ParamsOne, Omitted>>, <<ParamsTwo, "hp">> }

----------------------------------------------------------------------------
(* Pure helpers *)

\* os.path.join(dir, filename)
Join(d, f) == d \o "/" \o f

\* str(self.experiment.hash)
Str(h) == ToString(h)

\* json.dumps({"run_hash": s})
JsonDumps(s) == "{\"run_hash\": \"" \o s \o "\"}"

\* variant: the file opened with mode "a"
OpenWriteAppend(old, data) == [exists |-> TRUE, chunks |-> Append(old.chunks, data)]

\* open(path, "w") followed by one f.write(data): the old content is discarded
OpenWrite(old, data) == [exists |-> TRUE, chunks |-> <<data>>]

\* variant: the directory is never created
MakedirsSkipped(ds, d) == ds

\* os.makedirs(d, exist_ok=True) guarded by os.path.exists(d)
Makedirs(ds, d) == IF d \notin ds THEN ds \cup {d} ELSE ds

\* Python truthiness of an optional string: `if repo:`
Truthy(x) == x # None /\ x # ""

\* RunIDExporterAimCallback(repo=..., experiment=...): class attributes are None,
\* no run handle yet, no hash_export_path attribute
RunIDExporterAimCallback(repo, exp) ==
    [repo |-> repo, experiment_name |-> exp,
     run_id_export_path |-> None, hash_export_path |-> None,
     logger |-> None, run |-> 0]

AllPaths == {Join(d, AIM_HASH_EXPORT_DEFAULT_FILENAME) : d \in Dirs}
Absent == [exists |-> FALSE, chunks |-> <<>>]
Stale == [exists |-> TRUE, chunks |-> <<"stale">>]

\* the file system the program starts in: the directories are all missing, all
\* present and empty, or all present with a file left by an earlier program
InitialFileSystems ==
    { [dirs |-> {}, files |-> [p \in AllPaths |-> Absent]],
      [dirs |-> Dirs, files |-> [p \in AllPaths |-> Absent]],
      [dirs |-> Dirs, files |-> [p \in AllPaths |-> Stale]] }

\* Run.hash of the next run the tracking client creates: hashes are opaque and
\* unique per run; run n gets MaxCallbacks + n, which differs from its index n
FreshHash(rs) == MaxCallbacks + Len(rs) + 1

\* number of calls recorded on the runs so far (bounded by MaxRunCalls)
RECURSIVE CallsUpTo(_)
CallsUpTo(n) == IF n = 0 THEN 0 ELSE Len(runs[n].calls) + CallsUpTo(n - 1)
TotalCalls == CallsUpTo(Len(runs))

NoRet ==
    [op |-> "init", cb |-> 0, args |-> NoArgs, outcome |-> "return", value |-> 0,
     logged |-> <<>>, pre_path |-> None, pre_run |-> 0]

----------------------------------------------------------------------------
(* State after AimStackTracker(tracker_config): __init__ keeps the config and    *)
(* the root logger; hf_callback is first assigned at line 139 of get_hf_callback *)

Init ==
    /\ config \in Configs
    /\ logger = "root"
    /\ hf_callback = 0
    /\ callbacks = <<>>
    /\ runs = <<>>
    /\ \E fs \in InitialFileSystems : dirs = fs.dirs /\ files = fs.files
    /\ ret = NoRet

----------------------------------------------------------------------------
(* AimStackTracker.get_hf_callback *)

ConfigErrorLog ==
    [level |-> "error",
     msg |-> "Aim tracker requested but repo or server is not specified."]

\* variant: the else branch logs the error and does not raise
ConstructCallbackNoRaise(c) ==
    [raised |-> FALSE, logged |-> IF Truthy(c.aim_repo) THEN <<>> ELSE <<ConfigErrorLog>>,
     cb |-> IF Truthy(c.aim_repo)
            THEN <<RunIDExporterAimCallback(c.aim_repo, c.experiment)>>
            ELSE IF c.aim_url # None
            THEN <<RunIDExporterAimCallback(c.aim_url, c.experiment)>>
            ELSE <<>>]

\* Lines 120-131: the url check, then the repo check with its else branch.
\* cb is the local aim_callback as a sequence of 0 or 1 objects (<<>> = unbound).
ConstructCallback(c) ==
    LET afterUrl == IF c.aim_url # None
                    THEN <<RunIDExporterAimCallback(c.aim_url, c.experiment)>>
                    ELSE <<>>
    IN  IF Truthy(c.aim_repo)
        THEN [raised |-> FALSE, logged |-> <<>>,
              cb |-> <<RunIDExporterAimCallback(c.aim_repo, c.experiment)>>]
        ELSE [raised |-> TRUE, logged |-> <<ConfigErrorLog>>, cb |-> afterUrl]

\* Line 134: aim_callback.hash_export_path = run_id_path
AttachExportPath(cb, p) == [cb EXCEPT !.hash_export_path = p]

\* Line 137: aim_callback.logger = self.logger
AttachLogger(cb, lg) == [cb EXCEPT !.logger = lg]

get_hf_callback ==
    LET r == ConstructCallback(config)
        base == [NoRet EXCEPT !.op = "get_hf_callback", !.logged = r.logged]
    IN  IF r.raised
        THEN /\ ret' = [base EXCEPT !.outcome = "ValueError"]
             /\ UNCHANGED <<config, logger, hf_callback, callbacks, runs, dirs, files>>
        ELSE IF r.cb = <<>>
        THEN \* line 133 reads an unbound aim_callback (no path of lines 120-131 leads here)
             /\ ret' = [base EXCEPT !.outcome = "UnboundLocalError"]
             /\ UNCHANGED <<config, logger, hf_callback, callbacks, runs, dirs, files>>
        ELSE /\ Len(callbacks) < MaxCallbacks
             /\ callbacks' = Append(callbacks,
                    AttachLogger(AttachExportPath(r.cb[1], config.aim_run_id_export_path),
                                 logger))
             /\ hf_callback' = Len(callbacks) + 1
             /\ ret' = [base EXCEPT !.cb = Len(callbacks) + 1, !.value = Len(callbacks) + 1]
             /\ UNCHANGED <<config, logger, runs, dirs, files>>

----------------------------------------------------------------------------
(* RunIDExporterAimCallback.on_init_end *)

\* AimCallback.setup(): creates the run handle unless the callback has one
setup(cb, rs) ==
    IF cb.run = 0
    THEN [cb |-> [cb EXCEPT !.run = Len(rs) + 1],
          runs |-> Append(rs, [hash |-> FreshHash(rs), calls |-> <<>>])]
    ELSE [cb |-> cb, runs |-> rs]

\* variant: only args.output_dir is tested, an absent args is not
MissingLocationArgsUnchecked(args) == args.present /\ args.output_dir = None

\* Line 71: args is None or args.output_dir is None
MissingLocation(args) == ~args.present \/ args.output_dir = None

\* variant: the resolved directory is not kept on the callback
StoreExportPathDropped(cb, d) == cb

\* Line 78: self.run_id_export_path = args.output_dir
StoreExportPath(cb, d) == [cb EXCEPT !.run_id_export_path = d]

MissingLocationLog ==
    [level |-> "error",
     msg |-> "To export Aimstack hash either output_dir or aim_run_id_export_path should be set"]

DumpedLog(export_path) ==
    [level |-> "info", msg |-> "Aimstack tracker run hash id dumped to " \o export_path]

\* self.logger.<level>(msg) on the callback: the class attribute logger is None until attached
CallbackLog(base, cb, entry) ==
    IF cb.logger = None
    THEN [base EXCEPT !.outcome = "AttributeError"]
    ELSE [base EXCEPT !.logged = <<entry>>]

on_init_end(c, args) ==
    /\ c \in DOMAIN callbacks
    /\  LET s == setup(callbacks[c], runs)
            cb1 == s.cb
            base == [NoRet EXCEPT !.op = "on_init_end", !.cb = c, !.args = args,
                                  !.pre_path = callbacks[c].run_id_export_path,
                                  !.pre_run = callbacks[c].run]
        IN  /\ runs' = s.runs
            /\ IF cb1.run_id_export_path = None /\ MissingLocation(args)
               THEN /\ callbacks' = [callbacks EXCEPT ![c] = cb1]
                    /\ ret' = CallbackLog(base, cb1, MissingLocationLog)
                    /\ UNCHANGED <<dirs, files>>
               ELSE LET cb2 == IF cb1.run_id_export_path = None
                               THEN StoreExportPath(cb1, args.output_dir)
                               ELSE cb1
                        export_path == Join(cb2.run_id_export_path,
                                            AIM_HASH_EXPORT_DEFAULT_FILENAME)
                    IN  /\ callbacks' = [callbacks EXCEPT ![c] = cb2]
                        /\ IF cb2.run_id_export_path = None
                           THEN \* os.path.exists(None) raises
                                /\ ret' = [base EXCEPT !.outcome = "TypeError"]
                                /\ UNCHANGED <<dirs, files>>
                           ELSE /\ dirs' = Makedirs(dirs, cb2.run_id_export_path)
                                /\ files' = [files EXCEPT ![export_path] =
                                       OpenWrite(@, JsonDumps(Str(s.runs[cb2.run].hash)))]
                                /\ ret' = CallbackLog(base, cb2, DumpedLog(export_path))
    /\ UNCHANGED <<config, logger, hf_callback>>

----------------------------------------------------------------------------
(* AimStackTracker.track and AimStackTracker.set_params *)

\* variant: only the metric is validated
TrackArgsInvalidMetricOnly(metric, name) == metric = None

\* Line 155: metric is None or name is None
TrackArgsInvalid(metric, name) == metric = None \/ name = None

\* Line 142: stage="additional_metrics"
StageOrDefault(stage) == IF stage = Omitted THEN "additional_metrics" ELSE stage

\* Line 165: name="extra_params"
NameOrDefault(name) == IF name = Omitted THEN "extra_params" ELSE name

\* Line 159: context = {"subset": stage}
Context(stage) == [subset |-> stage]

\* run.track(metric, name=name, context=context) as seen by the tracking client
RunTrack(r, metric, name, context) ==
    [r EXCEPT !.calls = Append(@, [method |-> "track", value |-> metric,
                                   name |-> name, context |-> context])]

\* run.set(key, value, strict=strict) as seen by the tracking client
RunSet(r, key, value, strict) ==
    [r EXCEPT !.calls = Append(@, [method |-> "set", key |-> key,
                                   value |-> value, strict |-> strict])]

\* Lines 185-186: for key, value in params.items(): run.set((name, key), value, strict=False)
RECURSIVE SetEach(_, _, _)
SetEach(r, name, items) ==
    IF items = <<>>
    THEN r
    ELSE SetEach(RunSet(r, <<name, items[1][1]>>, items[1][2], FALSE), name, Tail(items))

\* Line 178: not isinstance(params, dict)
NotADict(params) == params.kind # "dict"

\* Lines 160-161 and 182-183: callback = self.hf_callback; run = callback.experiment
StoredRun == IF hf_callback = 0 THEN 0 ELSE callbacks[hf_callback].run

track(metric, name, stage) ==
    LET base == [NoRet EXCEPT !.op = "track", !.cb = hf_callback,
                              !.args = [metric |-> metric, name |-> name, stage |-> stage],
                              !.pre_run = StoredRun]
        run == StoredRun
    IN  /\ IF TrackArgsInvalid(metric, name)
           THEN /\ ret' = [base EXCEPT !.outcome = "ValueError"]
                /\ runs' = runs
           ELSE IF hf_callback = 0
           THEN /\ ret' = [base EXCEPT !.outcome = "AttributeError"]
                /\ runs' = runs
           ELSE IF run # 0
           THEN /\ TotalCalls < MaxRunCalls
                /\ runs' = [runs EXCEPT ![run] =
                               RunTrack(@, metric, name, Context(StageOrDefault(stage)))]
                /\ ret' = base
           ELSE /\ ret' = base
                /\ runs' = runs
        /\ UNCHANGED <<config, logger, hf_callback, callbacks, dirs, files>>

set_params(params, name) ==
    LET base == [NoRet EXCEPT !.op = "set_params", !.cb = hf_callback,
                              !.args = [params |-> params, name |-> name],
                              !.pre_run = StoredRun]
        run == StoredRun
    IN  /\ IF params.kind = "none"
           THEN /\ ret' = base
                /\ runs' = runs
           ELSE IF NotADict(params)
           THEN /\ ret' = [base EXCEPT !.outcome = "ValueError"]
                /\ runs' = runs
           ELSE IF hf_callback = 0
           THEN /\ ret' = [base EXCEPT !.outcome = "AttributeError"]
                /\ runs' = runs
           ELSE IF run # 0
           THEN /\ TotalCalls + Len(params.items) <= MaxRunCalls
                /\ runs' = [runs EXCEPT ![run] =
                               SetEach(@, NameOrDefault(name), params.items)]
                /\ ret' = base
           ELSE /\ ret' = base
                /\ runs' = runs
        /\ UNCHANGED <<config, logger, hf_callback, callbacks, dirs, files>>

----------------------------------------------------------------------------
(* The harness may call the four operations in any order *)

Next ==
    \/ get_hf_callback
    \/ \E c \in 1..MaxCallbacks, args \in ArgsChoices : on_init_end(c, args)
    \/ \E t \in TrackChoices : track(t[1], t[2], t[3])
    \/ \E p \in SetParamsChoices : set_params(p[1], p[2])

Spec == Init /\ [][Next]_vars

----------------------------------------------------------------------------
(* Properties *)

ExportFile(d) == Join(d, AIM_HASH_EXPORT_DEFAULT_FILENAME)

\* the one-record content {"run_hash": "<h>"} of an export file
RunHashRecord(h) ==
    [exists |-> TRUE, chunks |-> << "{\"run_hash\": \"" \o ToString(h) \o "\"}" >>]

\* C1: for a callback obtained from get_hf_callback with a configured export path P,
\* on_init_end writes the run-hash record to P/aimstack_tracker.json, also when
\* args.output_dir is another directory, and writes nothing elsewhere.
C1_ConfiguredExportPathWins ==
    (ret.op = "on_init_end" /\ config.aim_run_id_export_path # None) =>
        LET P == config.aim_run_id_export_path
            cb == callbacks[ret.cb]
        IN  /\ ret.outcome = "return"
            /\ cb.run # 0
            /\ files[ExportFile(P)] = RunHashRecord(runs[cb.run].hash)
            /\ ret.logged = <<DumpedLog(ExportFile(P))>>

\* C2: with aim_url set and aim_repo unset, get_hf_callback does not raise: it
\* constructs the callback with the url, stores it and returns it.
C2_UrlAloneSucceeds ==
    (ret.op = "get_hf_callback" /\ config.aim_url # None /\ config.aim_repo = None) =>
        /\ ret.outcome = "return"
        /\ hf_callback # 0
        /\ ret.value = hf_callback
        /\ callbacks[hf_callback].repo = config.aim_url

\* C3: with aim_repo and aim_url both unset, get_hf_callback logs the configuration
\* error and raises ValueError, returns no callback and leaves the stored callback
\* as it was.
C3_NeitherSetRaises ==
    [][ (ret'.op = "get_hf_callback" /\ config.aim_url = None /\ config.aim_repo = None) =>
            /\ ret'.outcome = "ValueError"
            /\ ret'.logged = <<ConfigErrorLog>>
            /\ ret'.value = 0
            /\ hf_callback' = hf_callback
            /\ callbacks' = callbacks ]_vars

C3_Witness ==
    /\ ret.op = "get_hf_callback"
    /\ config.aim_url = None /\ config.aim_repo = None
    /\ ret.outcome = "ValueError"
    /\ hf_callback = 0

\* C4: on_init_end with args.output_dir = D on a callback without export path sets up
\* the run handle and leaves D existing with D/aimstack_tracker.json holding exactly
\* {"run_hash": h}, h the string form of the hash of the callback's run handle.
C4_ExportToOutputDir ==
    (/\ ret.op = "on_init_end"
     /\ ret.pre_path = None
     /\ ret.args.present
     /\ ret.args.output_dir # None) =>
        LET D == ret.args.output_dir
            cb == callbacks[ret.cb]
        IN  /\ ret.outcome = "return"
            /\ cb.run # 0
            /\ D \in dirs
            /\ files[ExportFile(D)] = RunHashRecord(runs[cb.run].hash)

C4_Witness ==
    /\ ret.op = "on_init_end"
    /\ ret.pre_path = None
    /\ ret.pre_run = 0
    /\ ret.args = [present |-> TRUE, output_dir |-> "out"]
    /\ ret.outcome = "return"
    /\ "out" \in dirs
    /\ files[ExportFile("out")].exists

\* C5: on_init_end on a callback without export path, with args absent or
\* args.output_dir absent, returns normally after logging an error; it creates no
\* directory and writes no file.
C5_MissingLocationIsLogged ==
    [][ (/\ ret'.op = "on_init_end"
         /\ callbacks[ret'.cb].run_id_export_path = None
         /\ (~ret'.args.present \/ ret'.args.output_dir = None)) =>
            /\ ret'.outcome = "return"
            /\ ret'.logged = <<MissingLocationLog>>
            /\ dirs' = dirs
            /\ files' = files ]_vars

C5_Witness ==
    /\ ret.op = "on_init_end"
    /\ ret.pre_path = None
    /\ ~ret.args.present
    /\ ret.outcome = "return"
    /\ ret.logged = <<MissingLocationLog>>
    /\ dirs = {}

\* C6: track with non-null metric and name returns normally in every state; it
\* records nothing while the run handle is absent and exactly one record of metric
\* under name with context {"subset": stage} (stage defaulting to
\* "additional_metrics") once the run handle exists.
C6_TrackRecordsIffRunExists ==
    [][ (ret'.op = "track" /\ ret'.args.metric # None /\ ret'.args.name # None) =>
            LET a == ret'.args
                rec == [method |-> "track", value |-> a.metric, name |-> a.name,
                        context |-> [subset |-> IF a.stage = Omitted
                                                THEN "additional_metrics"
                                                ELSE a.stage]]
            IN  /\ ret'.outcome = "return"
                /\ IF StoredRun = 0
                   THEN runs' = runs
                   ELSE runs' = [runs EXCEPT ![StoredRun].calls = Append(@, rec)] ]_vars

C8_SetParamsAttachesEachKey ==
    [][ (ret'.op = "set_params" /\ ret'.args.params.kind = "dict") =>
            LET a == ret'.args
                nm == IF a.name = Omitted THEN "extra_params" ELSE a.name
                attached == [i \in 1..Len(a.params.items) |->
                                [method |-> "set",
                                 key |-> <<nm, a.params.items[i][1]>>,
                                 value |-> a.params.items[i][2],
                                 strict |-> FALSE]]
            IN  /\ ret'.outcome = "return"
                /\ IF StoredRun = 0
                   THEN runs' = runs
                   ELSE runs' = [runs EXCEPT ![StoredRun].calls = @ \o attached] ]_vars

\* C9: an export directory that on_init_end has written holds exactly one record in
\* aimstack_tracker.json, and after an invocation that reached the write step the
\* record is the run hash that invocation observed (writes overwrite, never append).
C9_ExportOverwrites ==
    /\ \A c \in DOMAIN callbacks :
          callbacks[c].run_id_export_path # None =>
              /\ files[ExportFile(callbacks[c].run_id_export_path)].exists
              /\ Len(files[ExportFile(callbacks[c].run_id_export_path)].chunks) = 1
    /\ (ret.op = "on_init_end" /\ callbacks[ret.cb].run_id_export_path # None) =>
          files[ExportFile(callbacks[ret.cb].run_id_export_path)]
              = RunHashRecord(runs[callbacks[ret.cb].run].hash)

\* a second or later invocation has written the directory an earlier one resolved
C9_Witness ==
    /\ ret.op = "on_init_end"
    /\ ret.pre_path # None
    /\ ret.pre_run # 0
    /\ ret.outcome = "return"
    /\ files[ExportFile(ret.pre_path)] = RunHashRecord(runs[ret.pre_run].hash)

\* C10: the directory resolved from args.output_dir is retained on the callback:
\* once resolved to D1, every later on_init_end on that callback writes
\* D1/aimstack_tracker.json whatever output_dir it is given, and an on_init_end that
\* took the missing-location branch leaves the export path unset.
C10_ResolvedDirectoryIsRetained ==
    [][ ret'.op = "on_init_end" =>
            LET c == ret'.cb
                a == ret'.args
                pre == callbacks[c].run_id_export_path
                post == callbacks'[c].run_id_export_path
            IN  /\ (pre = None /\ a.present /\ a.output_dir # None) => post = a.output_dir
                /\ (pre = None /\ (~a.present \/ a.output_dir = None)) => post = None
                /\ pre # None =>
                      /\ post = pre
                      /\ ret'.outcome = "return"
                      /\ ret'.logged = <<DumpedLog(ExportFile(pre))>>
                      /\ files'[ExportFile(pre)]
                            = RunHashRecord(runs'[callbacks'[c].run].hash)
                      /\ \A d \in Dirs \ {pre} :
                            files'[ExportFile(d)] = files[ExportFile(d)] ]_vars

C10_Witness ==
    /\ ret.op = "on_init_end"
    /\ ret.pre_path = "out"
    /\ ret.args.output_dir # "out"
    /\ ret.outcome = "return"
    /\ callbacks[ret.cb].run_id_export_path = "out"
    /\ ret.logged = <<DumpedLog(ExportFile("out"))>>
    /\ files[ExportFile("out")].exists

====
